---------------------------- MODULE Spec2Model ----------------------------
(***************************************************************************)
(* A model of rust-dwm-status (src/src/main.rs): the sensor adapters and   *)
(* the status composer as operators over character sequences, and the      *)
(* four threads of the program (coordinator = main, publisher =            *)
(* run_update_status, scheduler = run, notification listener = the         *)
(* closure spawned by run) as a state machine over the three channels     *)
(* that connect them.                                                      *)
(*                                                                         *)
(* A Rust String is a sequence of characters; a character is a one-element *)
(* TLA+ string.  The non-ASCII glyphs of the source are written by their   *)
(* code point ("U+1F4E7"), one sequence element per character.             *)
(***************************************************************************)
EXTENDS Integers, Sequences, FiniteSets, TLC

----------------------------------------------------------------------------
(* Bounds of the environment *)

\* number of events the environment produces in a run: notifications that
\* arrive, changes of the sensors' readings, signals, a loss of the X server
MaxEvents == 2
\* the timeouts tried lie within this distance of 0 and of the ceiling
TimeoutSpread == 2
\* the volume levels tried are -1 .. MaxVolume + 1
MaxVolume == 100

----------------------------------------------------------------------------
(* Characters and formatting *)

GlyphMail      == "U+1F4E7"
GlyphMuted     == "U+1F507"
GlyphSpkLow    == "U+1F508"
GlyphSpkMid    == "U+1F509"
GlyphSpkHigh   == "U+1F50A"
GlyphWired     == "U+21C5"
GlyphWireless  == "U+1F4E1"
GlyphPlug      == "U+1F50C"
GlyphBattery   == "U+1F50B"
GlyphRam       == "U+25AF"
GlyphCpu       == "U+2699"
GlyphCalendar  == "U+1F4C6"
GlyphClock     == "U+1F553"
GlyphDot       == "U+2E31"

DigitChar(d) == <<"0", "1", "2", "3", "4", "5", "6", "7", "8", "9">>[d + 1]

RECURSIVE NatDigits(_)
\* Display of a non-negative integer: its decimal digits, no padding
NatDigits(n) == IF n < 10 THEN <<DigitChar(n)>>
                ELSE NatDigits(n \div 10) \o <<DigitChar(n % 10)>>

\* Display of an i32 ("{}")
IntDisplay(n) == IF n < 0 THEN <<"-">> \o NatDigits(0 - n) ELSE NatDigits(n)

\* two digits, zero padded (chrono's %d, %H, %M)
Pad2(n) == <<DigitChar((n \div 10) % 10), DigitChar(n % 10)>>

\* "{:.1}" / "{:.2}" of a non-negative value given in units of 10^-k
Fixed(n, k) ==
    IF k = 1 THEN NatDigits(n \div 10) \o <<".">> \o <<DigitChar(n % 10)>>
    ELSE NatDigits(n \div 100) \o <<".">> \o Pad2(n % 100)

----------------------------------------------------------------------------
(* Sensor adapters.  Each takes the outcome of the query it makes: a       *)
(* record with ok = FALSE when the query failed (Err), the value otherwise *)

mail(r) ==
    IF r.ok /\ r.val > 0 THEN <<GlyphMail, " ">> \o IntDisplay(r.val)
    ELSE <<>>

\* mutant: the medium range ends one level late
volume_MidTo67(m, v) ==
    IF m.ok /\ m.val THEN <<GlyphMuted>>
    ELSE IF v.ok
         THEN LET speaker == IF v.val >= 0 /\ v.val <= 33 THEN GlyphSpkLow
                             ELSE IF v.val >= 34 /\ v.val <= 67 THEN GlyphSpkMid
                             ELSE GlyphSpkHigh
              IN  <<speaker, " ">> \o IntDisplay(v.val)
         ELSE <<>>

volume(m, v) ==
    IF m.ok /\ m.val THEN <<GlyphMuted>>
    ELSE IF v.ok
         THEN LET speaker == IF v.val >= 0 /\ v.val <= 33 THEN GlyphSpkLow
                             ELSE IF v.val >= 34 /\ v.val <= 66 THEN GlyphSpkMid
                             ELSE GlyphSpkHigh
              IN  <<speaker, " ">> \o IntDisplay(v.val)
         ELSE <<>>

network(n) ==
    IF n.ok
    THEN IF n.dock0 THEN <<GlyphWired>>
         ELSE IF n.wlp58s0 THEN <<GlyphWireless>>
         ELSE <<>>
    ELSE <<>>

plugged(ac) ==
    IF ac.ok THEN (IF ac.val THEN <<GlyphPlug>> ELSE <<GlyphBattery>>)
    ELSE <<GlyphPlug>>

\* bat.val is remaining_capacity * 100 in tenths of a percent
battery(bat, ac) ==
    IF bat.ok THEN plugged(ac) \o <<" ">> \o Fixed(bat.val, 1) \o <<"%">>
    ELSE <<>>

\* mem.total and mem.free in whole megabytes; the ByteSize is displayed as
\* its magnitude and unit
ram(mem) ==
    IF mem.ok THEN <<GlyphRam, " ">> \o NatDigits(mem.total - mem.free)
                   \o <<" ", "M", "B">>
    ELSE <<GlyphRam, " ", "_">>

\* load.val is the one-minute load average in hundredths
cpu(load) ==
    IF load.ok THEN <<GlyphCpu, " ">> \o Fixed(load.val, 2)
    ELSE <<GlyphCpu, " ", "_">>

\* now: the local time; wday and mon are chrono's abbreviated names
date(now) ==
    <<GlyphCalendar, " ">> \o now.wday \o <<",", " ">> \o Pad2(now.day)
    \o <<" ">> \o now.mon \o <<" ", GlyphDot, " ", GlyphClock, " ">>
    \o Pad2(now.hour) \o <<":">> \o Pad2(now.min)

----------------------------------------------------------------------------
(* Status composer *)

\* mutant: the separator follows an empty reading too
separated_Always(s) == s \o <<" ", GlyphDot, " ">>

separated(s) == IF s = <<>> THEN s ELSE s \o <<" ", GlyphDot, " ">>

status(sys) ==
    separated(mail(sys.mail)) \o
    separated(volume(sys.mute, sys.volume)) \o
    separated(network(sys.networks)) \o
    separated(battery(sys.battery, sys.ac)) \o
    separated(ram(sys.memory)) \o
    separated(cpu(sys.load)) \o
    date(sys.now)

----------------------------------------------------------------------------
(* Lines and notifications *)

Last(s) == s[Len(s)]

\* format!("{} {}", notification.summary, notification.body)
BannerText(n) == n.summary \o <<" ">> \o n.body

max_timeout == 10000

\* `t as u64` of a negative t is 2^64 + t, which is above every value the
\* integers of TLC hold; this value stands for it
U64OfNegative == 2147483647

as_u64(t) == IF t >= 0 THEN t ELSE U64OfNegative

\* mutant: the test for a negative timeout is left out
BannerSleepMillis_NoNegativeTest(timeout) ==
    LET t == IF timeout > max_timeout THEN max_timeout ELSE timeout
    IN  as_u64(t)

\* the argument of the banner's thread::sleep, in milliseconds
BannerSleepMillis(timeout) ==
    LET t == IF timeout > max_timeout \/ timeout < 0 THEN max_timeout
             ELSE timeout
    IN  as_u64(t)

Signals == {"INT", "TERM"}

SignalName(sig) == IF sig = "INT" THEN <<"I", "N", "T">>
                   ELSE <<"T", "E", "R", "M">>

\* format!("rust-dwm-status stopped with signal {:?}.", signal), where
\* signal is the Option<Signal> that recv() returned
SignalLine(sig) ==
    <<"r", "u", "s", "t", "-", "d", "w", "m", "-", "s", "t", "a", "t", "u",
      "s", " ", "s", "t", "o", "p", "p", "e", "d", " ", "w", "i", "t", "h",
      " ", "s", "i", "g", "n", "a", "l", " ">>
    \o <<"S", "o", "m", "e", "(">> \o SignalName(sig) \o <<")", ".">>

DoneLine ==
    <<"r", "u", "s", "t", "-", "d", "w", "m", "-", "s", "t", "a", "t", "u",
      "s", ":", " ", "d", "o", "n", "e", ".">>

----------------------------------------------------------------------------
(* The environment the model is checked in *)

Failed == [ok |-> FALSE]

\* every query but the clock fails
SysA == [mail |-> Failed, mute |-> Failed, volume |-> Failed,
         networks |-> Failed, battery |-> Failed, ac |-> Failed,
         memory |-> Failed, load |-> Failed,
         now |-> [wday |-> <<"F", "r", "i">>, day |-> 6,
                  mon |-> <<"N", "o", "v">>, hour |-> 9, min |-> 59]]

\* a minute later, with mail, sound and a wireless link
SysB == [mail |-> [ok |-> TRUE, val |-> 2],
         mute |-> [ok |-> TRUE, val |-> FALSE],
         volume |-> [ok |-> TRUE, val |-> 34],
         networks |-> [ok |-> TRUE, dock0 |-> FALSE, wlp58s0 |-> TRUE],
         battery |-> [ok |-> TRUE, val |-> 805], ac |-> Failed,
         memory |-> [ok |-> TRUE, total |-> 2048, free |-> 1536],
         load |-> [ok |-> TRUE, val |-> 50],
         now |-> [wday |-> <<"F", "r", "i">>, day |-> 6,
                  mon |-> <<"N", "o", "v">>, hour |-> 10, min |-> 0]]

SysStates == {SysA, SysB}

Hello == [summary |-> <<"h", "i">>, body |-> <<"y", "o", "u">>]

\* a notification whose text is the status line of SysA
Echo == [summary |-> <<GlyphRam>>,
         body |-> SubSeq(status(SysA), 3, Len(status(SysA)))]

Notifications ==
    {[summary |-> Hello.summary, body |-> Hello.body, timeout |-> -1],
     [summary |-> Echo.summary, body |-> Echo.body, timeout |-> 0]}

----------------------------------------------------------------------------
(* State *)

VARIABLES
    mainPc,          \* coordinator (main): the statement it is at
    sigChan,         \* `signal`: signals received and not yet taken by main
    pubPc,           \* publisher thread (run_update_status)
    pubStatus,       \* `status` of the publisher's for loop
    statusChan,      \* tx_status/rx_status: lines sent and not yet received
    xconn,           \* the X connection: "none", "ok", "broken" (lost, no
                     \* request has met it yet) or "error" (a flush failed)
    xProperty,       \* WM_NAME of the root window, as the X server holds it
    schedPc,         \* scheduler thread (run)
    banner,          \* `banner` of run
    sleepMs,         \* milliseconds of the banner sleep in progress
    listenerPc,      \* listener thread (the closure run spawns)
    incoming,        \* the notification the callback was invoked with
    rxNotification,  \* tx_notification/rx_notification: sent, not received
    sys,             \* what the sensors' queries return at this moment
    handed,          \* history: every line a send on tx_status accepted
    written,         \* history: every line change_property was called with
    flushed,         \* history: number of xconn.flush() calls
    coordSent,       \* history: the lines main called send with
    accepted,        \* history: notifications sent on tx_notification
    shown,           \* history: notifications run received
    iterSent,        \* history: kinds of line run sent in this iteration
    idleSig,         \* history: the signal that arrived in steady Idle state
    nEvents          \* events the environment has produced

vars == <<mainPc, sigChan, pubPc, pubStatus, statusChan, xconn, xProperty,
          schedPc, banner, sleepMs, listenerPc, incoming, rxNotification,
          sys, handed, written, flushed, coordSent, accepted, shown,
          iterSent, idleSig, nEvents>>

mainVars == <<mainPc, sigChan, coordSent>>
pubVars == <<pubPc, pubStatus, xconn, xProperty, written, flushed>>
schedVars == <<schedPc, banner, sleepMs, shown, iterSent>>
listenerVars == <<listenerPc, incoming, accepted>>
envVars == <<sys, nEvents>>

\* the process has exited: no thread takes another step
Exited == mainPc = "exited"

\* rx_status exists until the publisher thread unwinds
RxStatusAlive == pubPc # "panicked"

\* rx_notification and _sdone exist until the scheduler thread unwinds
SchedulerAlive == schedPc # "panicked"

\* the scheduler is between two ticks, a computed status line published and
\* no banner on display
SteadyIdle == schedPc \in {"tick_sleep", "poll"} /\ banner # <<>>

Init ==
    /\ mainPc = "notify"
    /\ sigChan = <<>>
    /\ pubPc = "unspawned"
    /\ pubStatus = <<>>
    /\ statusChan = <<>>
    /\ xconn = "none"
    /\ xProperty = <<>>
    /\ schedPc = "unspawned"
    /\ banner = <<>>
    /\ sleepMs = 0
    /\ listenerPc = "unspawned"
    /\ incoming = <<>>
    /\ rxNotification = <<>>
    /\ sys = SysA
    /\ handed = <<>>
    /\ written = <<>>
    /\ flushed = 0
    /\ coordSent = <<>>
    /\ accepted = <<>>
    /\ shown = <<>>
    /\ iterSent = <<>>
    /\ idleSig = "none"
    /\ nEvents = 0

\* the process exits: its threads and channels are gone; what the X server
\* holds stays
ProcessExit ==
    /\ mainPc' = "exited"
    /\ pubPc' = "gone"
    /\ schedPc' = "gone"
    /\ listenerPc' = "gone"
    /\ sigChan' = <<>>
    /\ statusChan' = <<>>
    /\ rxNotification' = <<>>
    /\ pubStatus' = <<>>
    /\ incoming' = <<>>
    /\ banner' = <<>>
    /\ sleepMs' = 0
    /\ iterSent' = <<>>
    /\ xconn' = "none"
    /\ UNCHANGED <<xProperty, sys, handed, written, flushed, coordSent,
                   accepted, shown, idleSig>>

----------------------------------------------------------------------------
(* Environment *)

\* the OS delivers SIGINT or SIGTERM: before chan_signal::notify the default
\* disposition ends the process, after it the signal is put on `signal`
Signal(sig) ==
    /\ ~Exited
    /\ nEvents < MaxEvents
    /\ nEvents' = nEvents + 1
    /\ IF mainPc = "notify"
       THEN ProcessExit
       ELSE /\ sigChan' = Append(sigChan, sig)
            /\ idleSig' = IF /\ idleSig = "none"
                             /\ sigChan = <<>>
                             /\ mainPc # "return"
                             /\ SteadyIdle
                          THEN sig ELSE idleSig
            /\ UNCHANGED <<mainPc, coordSent, pubVars, statusChan, schedVars,
                           listenerVars, rxNotification, handed, sys>>

\* the readings of the sensors change
SensorChange ==
    /\ ~Exited
    /\ nEvents < MaxEvents
    /\ nEvents' = nEvents + 1
    /\ sys' \in SysStates \ {sys}
    /\ UNCHANGED <<mainVars, pubVars, statusChan, schedVars, listenerVars,
                   rxNotification, handed, idleSig>>

\* the X server goes away, or the connection to it breaks
XBreak ==
    /\ ~Exited
    /\ nEvents < MaxEvents
    /\ nEvents' = nEvents + 1
    /\ xconn = "ok"
    /\ xconn' = "broken"
    /\ UNCHANGED <<mainVars, pubPc, pubStatus, xProperty, written, flushed,
                   statusChan, schedVars, listenerVars, rxNotification,
                   handed, idleSig, sys>>

\* the notification service invokes the callback registered by server.start
NotificationArrives(n) ==
    /\ ~Exited
    /\ listenerPc = "listening"
    /\ nEvents < MaxEvents
    /\ nEvents' = nEvents + 1
    /\ incoming' = <<n>>
    /\ listenerPc' = "callback"
    /\ UNCHANGED <<mainVars, pubVars, statusChan, schedVars, accepted,
                   rxNotification, handed, idleSig, sys>>

----------------------------------------------------------------------------
(* Coordinator: main *)

\* tx_status.send(line): the line is queued while rx_status exists; with
\* rx_status dropped the send returns Err and nothing is queued
TxStatusSend(line) ==
    IF RxStatusAlive
    THEN /\ handed' = Append(handed, line)
         /\ statusChan' = Append(statusChan, line)
    ELSE UNCHANGED <<handed, statusChan>>

\* chan_signal::notify(&[INT, TERM]) and the creation of the two channels
MainNotify ==
    /\ mainPc = "notify"
    /\ mainPc' = "spawn_publisher"
    /\ UNCHANGED <<sigChan, coordSent, pubVars, statusChan, schedVars,
                   listenerVars, rxNotification, handed, idleSig, envVars>>

\* thread::spawn(move || run_update_status(rx_status))
MainSpawnPublisher ==
    /\ mainPc = "spawn_publisher"
    /\ mainPc' = "spawn_run"
    /\ pubPc' = "connect"
    /\ UNCHANGED <<sigChan, coordSent, pubStatus, xconn, xProperty, written,
                   flushed, statusChan, schedVars, listenerVars,
                   rxNotification, handed, idleSig, envVars>>

\* mutant: run is spawned and only then does main come to register for the
\* signals
MainSpawnRun_ThenNotify ==
    /\ mainPc = "spawn_run"
    /\ mainPc' = "notify"
    /\ schedPc' = "start"
    /\ UNCHANGED <<sigChan, coordSent, pubVars, statusChan, banner, sleepMs,
                   shown, iterSent, listenerVars, rxNotification, handed,
                   idleSig, envVars>>

\* thread::spawn(move || run(sdone, main_tx_status))
MainSpawnRun ==
    /\ mainPc = "spawn_run"
    /\ mainPc' = "select"
    /\ schedPc' = "start"
    /\ UNCHANGED <<sigChan, coordSent, pubVars, statusChan, banner, sleepMs,
                   shown, iterSent, listenerVars, rxNotification, handed,
                   idleSig, envVars>>

\* mutant: main goes back to waiting after it has sent the signal's line
MainSelectSignal_KeepsWaiting ==
    /\ mainPc = "select"
    /\ sigChan # <<>>
    /\ sigChan' = Tail(sigChan)
    /\ coordSent' = Append(coordSent, SignalLine(Head(sigChan)))
    /\ TxStatusSend(SignalLine(Head(sigChan)))
    /\ mainPc' = "select"
    /\ UNCHANGED <<pubVars, schedVars, listenerVars, rxNotification,
                   idleSig, envVars>>

\* chan_select!, the signal.recv() arm: the send's unwrap either succeeds
\* or panics, and in both cases main is over
MainSelectSignal ==
    /\ mainPc = "select"
    /\ sigChan # <<>>
    /\ sigChan' = Tail(sigChan)
    /\ coordSent' = Append(coordSent, SignalLine(Head(sigChan)))
    /\ TxStatusSend(SignalLine(Head(sigChan)))
    /\ mainPc' = "return"
    /\ UNCHANGED <<pubVars, schedVars, listenerVars, rxNotification,
                   idleSig, envVars>>

\* mutant: the rdone.recv() arm is ready while run is still running
MainSelectDone_AnyTime ==
    /\ mainPc = "select"
    /\ coordSent' = Append(coordSent, DoneLine)
    /\ TxStatusSend(DoneLine)
    /\ mainPc' = "return"
    /\ UNCHANGED <<sigChan, pubVars, schedVars, listenerVars, rxNotification,
                   idleSig, envVars>>

\* chan_select!, the rdone.recv() arm: ready once every sender of sdone is
\* dropped, which is when run's thread unwinds
MainSelectDone ==
    /\ mainPc = "select"
    /\ ~SchedulerAlive
    /\ coordSent' = Append(coordSent, DoneLine)
    /\ TxStatusSend(DoneLine)
    /\ mainPc' = "return"
    /\ UNCHANGED <<sigChan, pubVars, schedVars, listenerVars, rxNotification,
                   idleSig, envVars>>

\* main returns (or its panic ends it): the process exits and takes every
\* thread with it
MainReturn ==
    /\ mainPc = "return"
    /\ ProcessExit
    /\ UNCHANGED nEvents

----------------------------------------------------------------------------
(* Publisher: run_update_status *)

\* xcb::Connection::connect(None).unwrap() and the lookup of the root
\* window: on failure the thread panics and rx_status is dropped with the
\* lines it holds
PubConnect ==
    /\ pubPc = "connect"
    /\ \/ /\ pubPc' = "recv"
          /\ xconn' = "ok"
          /\ UNCHANGED statusChan
       \/ /\ pubPc' = "panicked"
          /\ statusChan' = <<>>
          /\ UNCHANGED xconn
    /\ UNCHANGED <<mainVars, pubStatus, xProperty, written, flushed,
                   schedVars, listenerVars, rxNotification, handed,
                   idleSig, envVars>>

\* mutant: the publisher takes the newest line and discards the older ones
PubRecv_TakesLatest ==
    /\ pubPc = "recv"
    /\ statusChan # <<>>
    /\ pubStatus' = Last(statusChan)
    /\ statusChan' = <<>>
    /\ pubPc' = "change_property"
    /\ UNCHANGED <<mainVars, xconn, xProperty, written, flushed, schedVars,
                   listenerVars, rxNotification, handed, idleSig, envVars>>

\* chan.iter() yields the next line
PubRecv ==
    /\ pubPc = "recv"
    /\ statusChan # <<>>
    /\ pubStatus' = Head(statusChan)
    /\ statusChan' = Tail(statusChan)
    /\ pubPc' = "change_property"
    /\ UNCHANGED <<mainVars, xconn, xProperty, written, flushed, schedVars,
                   listenerVars, rxNotification, handed, idleSig, envVars>>

\* xcb::xproto::change_property(..): the request is put in xcb's buffer; the
\* cookie it returns is dropped
PubChangeProperty ==
    /\ pubPc = "change_property"
    /\ written' = Append(written, pubStatus)
    /\ pubPc' = "flush"
    /\ UNCHANGED <<mainVars, pubStatus, xconn, xProperty, flushed,
                   statusChan, schedVars, listenerVars, rxNotification,
                   handed, idleSig, envVars>>

\* xconn.flush(): the request reaches the server if the connection works;
\* the bool it returns is dropped
PubFlush ==
    /\ pubPc = "flush"
    /\ flushed' = flushed + 1
    /\ xProperty' = IF xconn = "ok" THEN pubStatus ELSE xProperty
    /\ xconn' = IF xconn = "ok" THEN "ok" ELSE "error"
    /\ pubStatus' = <<>>
    /\ pubPc' = "recv"
    /\ UNCHANGED <<mainVars, written, statusChan, schedVars,
                   listenerVars, rxNotification, handed, idleSig, envVars>>

----------------------------------------------------------------------------
(* Scheduler: run *)

\* NotificationServer::new(), System::new(), the notification channel, the
\* spawn of the listener thread and `let mut banner = String::new()`
SchedStart ==
    /\ schedPc = "start"
    /\ schedPc' = "poll"
    /\ banner' = <<>>
    /\ listenerPc' = "start"
    /\ UNCHANGED <<mainVars, pubVars, statusChan, sleepMs, shown, iterSent,
                   incoming, accepted, rxNotification, handed, idleSig,
                   envVars>>

\* mutant: the notification is looked at only when the computed status has
\* not changed; a changed status is evaluated (and published) first
SchedPoll_StatusFirst ==
    /\ schedPc = "poll"
    /\ IF rxNotification # <<>> /\ status(sys) = banner
       THEN LET notification == Head(rxNotification)
            IN  /\ shown' = Append(shown, notification)
                /\ banner' = BannerText(notification)
                /\ TxStatusSend(BannerText(notification))
                /\ IF RxStatusAlive
                   THEN /\ schedPc' = "banner_sleep"
                        /\ sleepMs' = BannerSleepMillis(notification.timeout)
                        /\ iterSent' = Append(iterSent, "banner")
                        /\ rxNotification' = Tail(rxNotification)
                   ELSE /\ schedPc' = "panicked"
                        /\ rxNotification' = <<>>
                        /\ UNCHANGED <<sleepMs, iterSent>>
       ELSE /\ schedPc' = "eval"
            /\ UNCHANGED <<banner, sleepMs, shown, iterSent, rxNotification,
                           handed, statusChan>>
    /\ UNCHANGED <<mainVars, pubVars, listenerVars, idleSig, envVars>>

\* top of the loop: rx_notification.try_recv() and, when it is Ok, the
\* banner's send and the choice of the sleep; a failed send panics in
\* unwrap, which drops rx_notification and _sdone
SchedPoll ==
    /\ schedPc = "poll"
    /\ IF rxNotification # <<>>
       THEN LET notification == Head(rxNotification)
            IN  /\ shown' = Append(shown, notification)
                /\ banner' = BannerText(notification)
                /\ TxStatusSend(BannerText(notification))
                /\ IF RxStatusAlive
                   THEN /\ schedPc' = "banner_sleep"
                        /\ sleepMs' = BannerSleepMillis(notification.timeout)
                        /\ iterSent' = Append(iterSent, "banner")
                        /\ rxNotification' = Tail(rxNotification)
                   ELSE /\ schedPc' = "panicked"
                        /\ rxNotification' = <<>>
                        /\ UNCHANGED <<sleepMs, iterSent>>
       ELSE /\ schedPc' = "eval"
            /\ UNCHANGED <<banner, sleepMs, shown, iterSent, rxNotification,
                           handed, statusChan>>
    /\ UNCHANGED <<mainVars, pubVars, listenerVars, idleSig, envVars>>

\* mutant: after the banner's sleep the loop starts over
SchedBannerWake_BackToPoll ==
    /\ schedPc = "banner_sleep"
    /\ schedPc' = "poll"
    /\ sleepMs' = 0
    /\ UNCHANGED <<mainVars, pubVars, statusChan, banner, shown, iterSent,
                   listenerVars, rxNotification, handed, idleSig, envVars>>

\* mutant: waking from the banner's sleep discards what is pending
SchedBannerWake_DropsPending ==
    /\ schedPc = "banner_sleep"
    /\ schedPc' = "eval"
    /\ sleepMs' = 0
    /\ rxNotification' = <<>>
    /\ UNCHANGED <<mainVars, pubVars, statusChan, banner, shown, iterSent,
                   listenerVars, handed, idleSig, envVars>>

\* thread::sleep(Duration::from_millis(t as u64)) returns
SchedBannerWake ==
    /\ schedPc = "banner_sleep"
    /\ schedPc' = "eval"
    /\ sleepMs' = 0
    /\ UNCHANGED <<mainVars, pubVars, statusChan, banner, shown, iterSent,
                   listenerVars, rxNotification, handed, idleSig, envVars>>

\* mutant: the recomputed line is sent without comparing it with `banner`
SchedEval_AlwaysSends ==
    /\ schedPc = "eval"
    /\ LET next_banner == status(sys)
       IN  /\ banner' = next_banner
           /\ TxStatusSend(next_banner)
           /\ IF RxStatusAlive
              THEN /\ schedPc' = "tick_sleep"
                   /\ iterSent' = Append(iterSent, "status")
                   /\ UNCHANGED rxNotification
              ELSE /\ schedPc' = "panicked"
                   /\ rxNotification' = <<>>
                   /\ UNCHANGED iterSent
    /\ UNCHANGED <<mainVars, pubVars, sleepMs, shown, listenerVars,
                   idleSig, envVars>>

\* let next_banner = status(&sys); if next_banner != banner { .. }
SchedEval ==
    /\ schedPc = "eval"
    /\ LET next_banner == status(sys)
       IN  IF next_banner # banner
           THEN /\ banner' = next_banner
                /\ TxStatusSend(next_banner)
                /\ IF RxStatusAlive
                   THEN /\ schedPc' = "tick_sleep"
                        /\ iterSent' = Append(iterSent, "status")
                        /\ UNCHANGED rxNotification
                   ELSE /\ schedPc' = "panicked"
                        /\ rxNotification' = <<>>
                        /\ UNCHANGED iterSent
           ELSE /\ schedPc' = "tick_sleep"
                /\ UNCHANGED <<banner, iterSent, rxNotification, handed,
                               statusChan>>
    /\ UNCHANGED <<mainVars, pubVars, sleepMs, shown, listenerVars,
                   idleSig, envVars>>

\* mutant: the next iteration starts with an emptied notification channel
SchedTickWake_ClearsChannel ==
    /\ schedPc = "tick_sleep"
    /\ schedPc' = "poll"
    /\ iterSent' = <<>>
    /\ rxNotification' = <<>>
    /\ UNCHANGED <<mainVars, pubVars, statusChan, banner, sleepMs, shown,
                   listenerVars, handed, idleSig, envVars>>

\* thread::sleep(Duration::from_millis(500)) returns: next iteration
SchedTickWake ==
    /\ schedPc = "tick_sleep"
    /\ schedPc' = "poll"
    /\ iterSent' = <<>>
    /\ UNCHANGED <<mainVars, pubVars, statusChan, banner, sleepMs, shown,
                   listenerVars, rxNotification, handed, idleSig, envVars>>

----------------------------------------------------------------------------
(* Notification listener: the thread run spawns *)

\* server.start(..) registers with the notification service; when it cannot
\* the call ends inside the spawned thread, whose JoinHandle run dropped
ListenerStart ==
    /\ listenerPc = "start"
    /\ listenerPc' \in {"listening", "start_failed"}
    /\ UNCHANGED <<mainVars, pubVars, statusChan, schedVars, incoming,
                   accepted, rxNotification, handed, idleSig, envVars>>

\* mutant: a single slot in which the newest notification replaces the one
\* not yet received
ListenerHandoff_LatestWins ==
    /\ listenerPc = "callback"
    /\ incoming' = <<>>
    /\ IF SchedulerAlive
       THEN /\ rxNotification' = <<incoming[1]>>
            /\ accepted' = Append(accepted, incoming[1])
            /\ listenerPc' = "listening"
       ELSE /\ listenerPc' = "panicked"
            /\ UNCHANGED <<rxNotification, accepted>>
    /\ UNCHANGED <<mainVars, pubVars, statusChan, schedVars, handed,
                   idleSig, envVars>>

\* mutant: a single slot whose send waits until the slot is empty
\* (sync_channel(1) in place of channel())
ListenerHandoff_WaitsForSlot ==
    /\ listenerPc = "callback"
    /\ SchedulerAlive => rxNotification = <<>>
    /\ incoming' = <<>>
    /\ IF SchedulerAlive
       THEN /\ rxNotification' = Append(rxNotification, incoming[1])
            /\ accepted' = Append(accepted, incoming[1])
            /\ listenerPc' = "listening"
       ELSE /\ listenerPc' = "panicked"
            /\ UNCHANGED <<rxNotification, accepted>>
    /\ UNCHANGED <<mainVars, pubVars, statusChan, schedVars, handed,
                   idleSig, envVars>>

\* the callback: tx_notification.send(notification.clone()).unwrap() on the
\* unbounded channel of std::sync::mpsc::channel()
ListenerHandoff ==
    /\ listenerPc = "callback"
    /\ incoming' = <<>>
    /\ IF SchedulerAlive
       THEN /\ rxNotification' = Append(rxNotification, incoming[1])
            /\ accepted' = Append(accepted, incoming[1])
            /\ listenerPc' = "listening"
       ELSE /\ listenerPc' = "panicked"
            /\ UNCHANGED <<rxNotification, accepted>>
    /\ UNCHANGED <<mainVars, pubVars, statusChan, schedVars, handed,
                   idleSig, envVars>>

----------------------------------------------------------------------------
(* Specifications *)

Next ==
    \/ \E sig \in Signals : Signal(sig)
    \/ SensorChange
    \/ XBreak
    \/ \E n \in Notifications : NotificationArrives(n)
    \/ MainNotify
    \/ MainSpawnPublisher
    \/ MainSpawnRun
    \/ MainSelectSignal
    \/ MainSelectDone
    \/ MainReturn
    \/ PubConnect
    \/ PubRecv
    \/ PubChangeProperty
    \/ PubFlush
    \/ SchedStart
    \/ SchedPoll
    \/ SchedBannerWake
    \/ SchedEval
    \/ SchedTickWake
    \/ ListenerStart
    \/ ListenerHandoff

Spec == Init /\ [][Next]_vars

\* every thread that can take a step is eventually scheduled; sleeps end;
\* nothing is assumed of the environment
Fairness ==
    /\ WF_vars(MainNotify \/ MainSpawnPublisher \/ MainSpawnRun
               \/ MainSelectSignal \/ MainSelectDone \/ MainReturn)
    /\ WF_vars(PubConnect \/ PubRecv \/ PubChangeProperty \/ PubFlush)
    /\ WF_vars(SchedStart \/ SchedPoll \/ SchedBannerWake \/ SchedEval
               \/ SchedTickWake)
    /\ WF_vars(ListenerStart \/ ListenerHandoff)

FairSpec == Init /\ [][Next]_vars /\ Fairness

TypeOK ==
    /\ mainPc \in {"notify", "spawn_publisher", "spawn_run", "select",
                   "return", "exited"}
    /\ pubPc \in {"unspawned", "connect", "recv", "change_property", "flush",
                  "panicked", "gone"}
    /\ schedPc \in {"unspawned", "start", "poll", "banner_sleep", "eval",
                    "tick_sleep", "panicked", "gone"}
    /\ listenerPc \in {"unspawned", "start", "start_failed", "listening",
                       "callback", "panicked", "gone"}
    /\ xconn \in {"none", "ok", "broken", "error"}
    /\ sys \in SysStates
    /\ Len(incoming) <= 1
    /\ nEvents \in 0..MaxEvents

----------------------------------------------------------------------------
(* The scheduler on one notification, for a range of timeouts *)

\* the least and the greatest i32
MinI32 == (0 - 2147483647) - 1
MaxI32 == 2147483647

TimeoutInputs ==
    ((0 - TimeoutSpread) .. TimeoutSpread)
    \cup ((max_timeout - TimeoutSpread) .. (max_timeout + TimeoutSpread))
    \cup {MinI32, MaxI32}

\* the program in its steady state (status line published and written, every
\* thread in its loop) with one notification waiting in the channel
InitTimeout ==
    /\ mainPc = "select"
    /\ sigChan = <<>>
    /\ pubPc = "recv"
    /\ pubStatus = <<>>
    /\ statusChan = <<>>
    /\ xconn = "ok"
    /\ sys \in SysStates
    /\ xProperty = status(sys)
    /\ schedPc = "poll"
    /\ banner = status(sys)
    /\ sleepMs = 0
    /\ listenerPc = "listening"
    /\ incoming = <<>>
    /\ \E t \in TimeoutInputs :
          /\ rxNotification = <<[summary |-> Hello.summary,
                                 body |-> Hello.body, timeout |-> t]>>
          /\ accepted = rxNotification
    /\ handed = <<status(sys)>>
    /\ written = <<status(sys)>>
    /\ flushed = 1
    /\ coordSent = <<>>
    /\ shown = <<>>
    /\ iterSent = <<>>
    /\ idleSig = "none"
    /\ nEvents = MaxEvents

NextTimeout ==
    \/ SchedPoll
    \/ SchedBannerWake
    \/ SchedEval
    \/ SchedTickWake
    \/ PubRecv
    \/ PubChangeProperty
    \/ PubFlush

TimeoutSpec == InitTimeout /\ [][NextTimeout]_vars

----------------------------------------------------------------------------
(* The scheduler's first status lines, for a range of sensor readings *)

\* every adapter but the clock with an outcome that gives an empty reading
\* and outcomes that give a non-empty one
ReadingInputs ==
    {[mail |-> m, mute |-> vol.mute, volume |-> vol.volume, networks |-> n,
      battery |-> pow.battery, ac |-> pow.ac, memory |-> mem, load |-> l,
      now |-> SysA.now] :
        m \in {Failed, [ok |-> TRUE, val |-> 0], [ok |-> TRUE, val |-> 2]},
        vol \in {[mute |-> Failed, volume |-> Failed],
                 [mute |-> [ok |-> TRUE, val |-> TRUE], volume |-> Failed],
                 [mute |-> SysB.mute, volume |-> SysB.volume]},
        n \in {Failed,
               [ok |-> TRUE, dock0 |-> FALSE, wlp58s0 |-> FALSE],
               [ok |-> TRUE, dock0 |-> FALSE, wlp58s0 |-> TRUE],
               [ok |-> TRUE, dock0 |-> TRUE, wlp58s0 |-> TRUE]},
        pow \in {[battery |-> Failed, ac |-> Failed],
                 [battery |-> SysB.battery, ac |-> Failed],
                 [battery |-> SysB.battery, ac |-> [ok |-> TRUE, val |-> FALSE]]},
        mem \in {Failed, SysB.memory},
        l \in {Failed, SysB.load}}

\* every volume level with every outcome of the mute query, the other
\* queries as in SysA
VolumeInputs ==
    {[mail |-> Failed, mute |-> m, volume |-> v,
      networks |-> Failed, battery |-> Failed, ac |-> Failed,
      memory |-> Failed, load |-> Failed, now |-> SysA.now] :
        m \in {Failed, [ok |-> TRUE, val |-> TRUE], [ok |-> TRUE, val |-> FALSE]},
        v \in {Failed} \cup
              {[ok |-> TRUE, val |-> x] : x \in (0 - 1) .. (MaxVolume + 1)}}

\* the program when every thread has reached its loop and run is about to
\* begin its first iteration, the sensors giving one of the readings of S
InitReadings(S) ==
    /\ mainPc = "select"
    /\ sigChan = <<>>
    /\ pubPc = "recv"
    /\ pubStatus = <<>>
    /\ statusChan = <<>>
    /\ xconn = "ok"
    /\ xProperty = <<>>
    /\ sys \in S
    /\ schedPc = "poll"
    /\ banner = <<>>
    /\ sleepMs = 0
    /\ listenerPc = "listening"
    /\ incoming = <<>>
    /\ rxNotification = <<>>
    /\ accepted = <<>>
    /\ handed = <<>>
    /\ written = <<>>
    /\ flushed = 0
    /\ coordSent = <<>>
    /\ shown = <<>>
    /\ iterSent = <<>>
    /\ idleSig = "none"
    /\ nEvents = MaxEvents

NextReadings ==
    \/ SchedPoll
    \/ SchedEval
    \/ SchedTickWake
    \/ PubRecv
    \/ PubChangeProperty
    \/ PubFlush

InitCompose == InitReadings(ReadingInputs)
ComposeSpec == InitCompose /\ [][NextReadings]_vars

InitVolume == InitReadings(VolumeInputs)
VolumeSpec == InitVolume /\ [][NextReadings]_vars

----------------------------------------------------------------------------
(* Claims *)

IsPrefix(a, b) == Len(a) <= Len(b) /\ a = SubSeq(b, 1, Len(a))

\* the threads of the process are running
Running == mainPc \in {"select", "return"}

\* C1: the lines handed to the Publisher (by the scheduler's status path, its
\* banner path and the coordinator) never contain two equal adjacent lines.
C1_NoRepeatedLine ==
    \A i \in 1 .. (Len(handed) - 1) : handed[i] # handed[i + 1]

\* C2 as stated: after a signal that arrived in steady Idle state the
\* coordinator has made exactly one publish attempt, of the line that names
\* that signal.
C2_SignalLineOnly ==
    (mainPc \in {"return", "exited"} /\ idleSig # "none")
        => coordSent = <<SignalLine(idleSig)>>

\* the one attempt of the coordinator after a signal in steady Idle state
C2_OneAttempt ==
    (mainPc \in {"return", "exited"} /\ idleSig # "none")
        => \/ coordSent = <<SignalLine(idleSig)>>
           \/ /\ coordSent = <<DoneLine>>
              /\ \A i \in 1 .. Len(handed) : handed[i] # DoneLine

\* C2, amended: after a signal that arrived in steady Idle state the
\* coordinator makes exactly one publish attempt (of the line naming the
\* signal, or of the done line, never accepted, when the scheduler thread has
\* died by then), the process exits, and nothing moves after the exit.
C2_SignalAtIdle ==
    /\ []C2_OneAttempt
    /\ [][Exited => vars' = vars]_vars
    /\ (idleSig # "none") ~> Exited

C2_Witness ==
    /\ Exited
    /\ idleSig # "none"
    /\ coordSent = <<SignalLine(idleSig)>>
    /\ handed # <<>>
    /\ Last(handed) = SignalLine(idleSig)

MAX_BANNER_MS == 10000

C4_NotificationFirst ==
    /\ [][(schedPc = "poll" /\ rxNotification # <<>>
           /\ schedPc' \notin {"poll", "gone"})
          => \/ /\ schedPc' = "banner_sleep"
                /\ handed' = Append(handed,
                                    BannerText(Head(rxNotification)))
             \/ /\ schedPc' = "panicked"
                /\ ~RxStatusAlive
                /\ handed' = handed]_vars
    /\ [](iterSent \in {<<>>, <<"banner">>, <<"status">>,
                        <<"banner", "status">>})

\* a banner was published while the sensors had changed since the last
\* published status line
C4_Witness ==
    /\ schedPc = "banner_sleep"
    /\ iterSent = <<"banner">>
    /\ Len(handed) >= 2
    /\ Last(handed) = banner
    /\ handed[Len(handed) - 1] # status(sys)

\* C5: a tick sends the recomputed line if and only if it differs from the
\* last line the scheduler published, and remembers it; otherwise it sends
\* nothing and its remembered line stays.
C5_TickPublishesChangesOnly ==
    /\ [][(schedPc = "eval" /\ schedPc' \notin {"eval", "gone"})
          => IF status(sys) # banner
             THEN /\ banner' = status(sys)
                  /\ \/ /\ handed' = Append(handed, status(sys))
                        /\ statusChan' = Append(statusChan, status(sys))
                        /\ schedPc' = "tick_sleep"
                     \/ /\ ~RxStatusAlive
                        /\ handed' = handed
                        /\ schedPc' = "panicked"
             ELSE /\ handed' = handed
                  /\ statusChan' = statusChan
                  /\ banner' = banner
                  /\ schedPc' = "tick_sleep"]_vars
    /\ []((schedPc \in {"poll", "banner_sleep", "eval", "tick_sleep"}
           /\ coordSent = <<>> /\ handed # <<>>) => banner = Last(handed))

\* a tick that found the line unchanged, after an earlier change
C5_Witness ==
    /\ schedPc = "tick_sleep"
    /\ iterSent = <<>>
    /\ Len(handed) >= 2
    /\ Last(handed) = status(sys)

\* C6 as stated: at most one notification is held unconsumed.
C6_SingleSlot == Len(rxNotification) <= 1

\* C6, amended: the handoff is an unbounded first-in first-out queue; while
\* the scheduler thread lives, the notifications handed over are those it
\* has received followed by those waiting, in order: none is overwritten or
\* dropped, a later one waits behind the earlier ones.
C6_FifoQueue ==
    (Running /\ SchedulerAlive) => accepted = shown \o rxNotification

C6_Witness ==
    /\ Len(rxNotification) >= 2
    /\ rxNotification[1] # rxNotification[2]

\* C7: whenever the listener's callback is about to hand a notification
\* over, that step can be taken at once, whatever the scheduler is doing and
\* however many notifications are waiting.
C7_HandoffNeverBlocks ==
    listenerPc = "callback" => ENABLED ListenerHandoff

\* a second notification is being handed over while the first waits and
\* the scheduler is asleep
C7_Witness ==
    /\ listenerPc = "callback"
    /\ rxNotification # <<>>
    /\ schedPc \in {"banner_sleep", "tick_sleep"}

\* C8: the lines written are the lines handed over, each once and in order;
\* each write is flushed before the next line is taken.
C8_WritesInOrderAndFlushed ==
    /\ IsPrefix(written, handed)
    /\ pubPc = "recv" =>
          /\ handed = written \o statusChan
          /\ flushed = Len(written)
    /\ pubPc = "change_property" =>
          /\ handed = written \o <<pubStatus>> \o statusChan
          /\ flushed = Len(written)
    /\ pubPc = "flush" =>
          /\ handed = written \o statusChan
          /\ Last(written) = pubStatus
          /\ flushed = Len(written) - 1
    /\ flushed \in {Len(written) - 1, Len(written)}

C8_Witness ==
    /\ pubPc = "recv"
    /\ Len(written) >= 3
    /\ written = handed
    /\ flushed = Len(written)
    /\ xProperty = Last(handed)

\* the Publisher cannot use the connection, and the process can tell: the
\* connect failed or a flush failed
PublisherFailed == pubPc = "panicked" \/ xconn = "error"

\* C9: once the Publisher has failed the scheduler does not go on publishing:
\* no further line of it is accepted, its next send ends its thread and with
\* it the process (the coordinator is waiting, no signal has arrived).
C9_PublisherFailureIsFatal ==
    [][(PublisherFailed /\ mainPc = "select" /\ sigChan = <<>>)
       => handed' = handed]_vars

\* C10: when the listener cannot register with the notification service the
\* process terminates.
C10_ListenerFailureIsFatal ==
    (listenerPc = "start_failed") ~> Exited

\* the separator of the composed line
Sep == <<" ", GlyphDot, " ">>

RECURSIVE Intercalate(_, _)
\* the elements of the sequence of strings ss, sep between neighbours
Intercalate(ss, sep) ==
    IF ss = <<>> THEN <<>>
    ELSE IF Len(ss) = 1 THEN ss[1]
    ELSE ss[1] \o sep \o Intercalate(Tail(ss), sep)

NonEmpty(s) == s # <<>>

\* the readings of the sensors in the order of the line, the time last
Readings(sy) ==
    <<mail(sy.mail), volume(sy.mute, sy.volume), network(sy.networks),
      battery(sy.battery, sy.ac), ram(sy.memory), cpu(sy.load), date(sy.now)>>

SepAt(line, i) == i >= 1 /\ i + 2 <= Len(line) /\ SubSeq(line, i, i + 2) = Sep

\* C11: the line the scheduler composes is its non-empty readings in the
\* order mail, volume, network, battery, memory, CPU, time with exactly one
\* separator between neighbours: an empty reading adds neither characters
\* nor a separator, and no line that is published begins with, ends with or
\* doubles the separator
C11_ComposedLine ==
    /\ schedPc = "tick_sleep" =>
            banner = Intercalate(SelectSeq(Readings(sys), NonEmpty), Sep)
    /\ \A k \in 1..Len(handed) :
          LET line == handed[k] IN
            /\ ~SepAt(line, 1)
            /\ ~SepAt(line, Len(line) - 2)
            /\ \A i \in 1..Len(line) : ~(SepAt(line, i) /\ SepAt(line, i + 3))

\* a line with an empty reading between two non-empty ones is on the window
C11_Witness ==
    /\ schedPc = "tick_sleep"
    /\ mail(sys.mail) # <<>>
    /\ volume(sys.mute, sys.volume) = <<>>
    /\ network(sys.networks) # <<>>
    /\ battery(sys.battery, sys.ac) = <<>>
    /\ xProperty = banner
    /\ banner # <<>>

\* the volume reading the levels 0..100 and the mute flag call for
VolumeReading(muted, v) ==
    IF muted THEN <<GlyphMuted>>
    ELSE <<(IF v <= 33 THEN GlyphSpkLow
            ELSE IF v <= 66 THEN GlyphSpkMid ELSE GlyphSpkHigh), " ">>
         \o NatDigits(v)

\* C12: for a volume level v of 0..100 and a mute flag, the volume reading
\* of the composed line is the muted icon alone when muted, and otherwise
\* the low icon for 0..33, the medium icon for 34..66, the high icon for
\* 67..100, followed by the number v
C12_VolumeReading ==
    (/\ schedPc = "tick_sleep"
     /\ sys \in VolumeInputs
     /\ sys.mute.ok /\ sys.volume.ok
     /\ sys.volume.val \in 0..100)
    => banner = VolumeReading(sys.mute.val, sys.volume.val) \o Sep
                \o status(SysA)

\* level 67, not muted, is on the window
C12_Witness ==
    /\ schedPc = "tick_sleep"
    /\ sys \in VolumeInputs
    /\ sys.mute.ok /\ ~sys.mute.val
    /\ sys.volume.ok /\ sys.volume.val = 67
    /\ xProperty = banner
    /\ banner # <<>>

Range(f) == {f[i] : i \in DOMAIN f}

\* the step that ends the banner's sleep goes to the evaluation and takes no
\* notification; the evaluation that follows publishes the computed line
\* exactly when it differs from the banner's text
C13_SameIteration ==
    /\ (schedPc = "banner_sleep" /\ schedPc' # "banner_sleep" /\ ~Exited')
        => (schedPc' = "eval" /\ shown' = shown /\ banner' = banner
            /\ iterSent' = iterSent /\ handed' = handed)
    /\ (schedPc = "eval" /\ iterSent = <<"banner">> /\ schedPc' = "tick_sleep")
        => /\ shown' = shown
           /\ banner' = status(sys)
           /\ IF status(sys) # banner
              THEN handed' = Append(handed, status(sys))
              ELSE handed' = handed

\* C13: when a banner's sleep is over the scheduler goes on, in the same
\* iteration and without taking another notification, to evaluate the
\* computed status; so a banner that has been published leads, unless the
\* process exits, to an evaluation whose line, if it differs from the
\* banner's text, is published in its place
C13_BannerThenStatus ==
    /\ [][C13_SameIteration]_vars
    /\ (schedPc = "banner_sleep")
          ~> (Exited \/ (schedPc = "tick_sleep" /\ banner \in Range(handed)
                          /\ iterSent \in {<<"banner">>, <<"banner", "status">>}))

\* a banner and then, in the same iteration, the computed line were sent
C13_Witness ==
    /\ schedPc = "tick_sleep"
    /\ iterSent = <<"banner", "status">>
    /\ shown # <<>>
    /\ banner = status(sys)
    /\ Last(handed) = banner

\* C14: a notification whose banner text equals the line that is currently
\* published causes no publish: the banner is sent only if it differs
C14_BannerOnlyIfDifferent ==
    [][(/\ schedPc = "poll"
        /\ rxNotification # <<>>
        /\ handed # <<>>
        /\ BannerText(Head(rxNotification)) = banner
        /\ banner = Last(handed)
        /\ schedPc' # "poll")
       => handed' = handed]_vars

\* C15: while a banner is displayed, from its publish to the end of its
\* sleep, the scheduler evaluates no sensors, publishes nothing and takes no
\* notification; a notification that arrives meanwhile is added to the
\* pending ones, and every pending one stays pending
C15_BannerBlocks ==
    [][(schedPc = "banner_sleep" /\ ~Exited')
       => /\ schedPc' \in {"banner_sleep", "eval"}
          /\ shown' = shown
          /\ banner' = banner
          /\ iterSent' = iterSent
          /\ (handed' = handed \/ coordSent' # coordSent)
          /\ IsPrefix(rxNotification, rxNotification')
          /\ (schedPc' = "banner_sleep" => sleepMs' = sleepMs)]_vars

\* the banner is on the window and a second notification is pending
C15_Witness ==
    /\ schedPc = "banner_sleep"
    /\ xProperty = banner
    /\ Len(shown) = 1
    /\ banner = BannerText(shown[1])
    /\ Len(rxNotification) = 1
    /\ listenerPc = "listening"

Asleep == schedPc \in {"banner_sleep", "tick_sleep"}

\* C16: a signal that is pending while the scheduler sleeps (banner or tick)
\* is handled without the sleep ending: the coordinator's wait returns, the
\* line naming the signal is handed to the publisher, the coordinator goes
\* on to exit, and the scheduler is still asleep
C16_SignalWhileAsleep ==
    [][(/\ mainPc = "select"
        /\ sigChan # <<>>
        /\ Asleep
        /\ mainPc' # "select")
       => /\ mainPc' = "return"
          /\ handed' = Append(handed, SignalLine(Head(sigChan)))
          /\ schedPc' = schedPc]_vars

SignalLines == {SignalLine(sig) : sig \in Signals}

\* C17: the line naming the signal is final: nothing is handed to the
\* publisher after it and nothing is written after it, so when it has been
\* written it is the value of the window property
C17_SignalLineFinal ==
    /\ \A i \in 1..Len(handed) : handed[i] \in SignalLines => i = Len(handed)
    /\ \A i \in 1..Len(written) : written[i] \in SignalLines => i = Len(written)
    /\ (written # <<>> /\ Last(written) \in SignalLines
        /\ pubPc \notin {"change_property", "flush"} /\ xconn = "ok")
       => xProperty = Last(written)

\* the publisher thread has not failed
PublisherRuns == pubPc \in {"unspawned", "connect", "recv", "change_property", "flush"}

C18_NoCompletion ==
    /\ (PublisherRuns /\ schedPc # "unspawned")
        => schedPc \in {"start", "poll", "banner_sleep", "eval", "tick_sleep"}
    /\ DoneLine \notin Range(handed)
    /\ (PublisherRuns /\ mainPc = "return")
        => \E sig \in Signals : coordSent = <<SignalLine(sig)>>

\* C18: while the publisher has not failed the scheduler loop does not end
\* and never reports completion: the coordinator's wait returns through the
\* signal arm only, the line 'rust-dwm-status: done.' is never published,
\* and the process exits only because of a signal
C18_OnlySignalsEnd ==
    /\ []C18_NoCompletion
    /\ [][(PublisherRuns /\ mainPc = "select" /\ mainPc' # "select")
          => /\ sigChan # <<>>
             /\ mainPc' = "return"
             /\ coordSent' = <<SignalLine(Head(sigChan))>>]_vars
    /\ [][(PublisherRuns /\ ~Exited /\ Exited')
          => \/ mainPc = "notify" /\ nEvents' = nEvents + 1
             \/ mainPc = "return" /\ coordSent \in {<<l>> : l \in SignalLines}]_vars

\* the coordinator is about to exit on a signal, publisher and scheduler
\* both in their loops
C18_Witness ==
    /\ mainPc = "return"
    /\ pubPc = "recv"
    /\ written # <<>>
    /\ schedPc = "tick_sleep"
    /\ coordSent \in {<<l>> : l \in SignalLines}

\* C19: the coordinator registers for SIGINT and SIGTERM before it starts
\* the publisher and the scheduler: in no state does a thread exist, or has
\* a line been published, while main has yet to register, and while the
\* scheduler exists a signal is put into main's channel
C19_SignalsBeforeThreads ==
    /\ [](mainPc = "notify"
          => /\ pubPc = "unspawned" /\ schedPc = "unspawned"
             /\ listenerPc = "unspawned"
             /\ handed = <<>> /\ shown = <<>>)
    /\ [][(schedPc \notin {"unspawned", "gone"} /\ nEvents' = nEvents + 1
           /\ sys' = sys /\ xconn' = xconn /\ incoming' = incoming)
          => (~Exited' /\ \E sig \in Signals : sigChan' = Append(sigChan, sig))]_vars

\* a signal has been captured while the scheduler was running
C19_Witness ==
    /\ mainPc = "select"
    /\ schedPc = "tick_sleep"
    /\ handed # <<>>
    /\ sigChan # <<>>

IsBannerKind(k) == k = "banner"

\* the scheduler takes the oldest pending notification, makes its text the
\* banner and, unless the send fails, hands the banner to the publisher
C20_TakesOldest ==
    shown' # shown
    => /\ rxNotification # <<>>
       /\ shown' = Append(shown, Head(rxNotification))
       /\ banner' = BannerText(Head(rxNotification))
       /\ (schedPc' = "banner_sleep"
           => handed' = Append(handed, BannerText(Head(rxNotification))))

\* C20: no notification the listener has handed over is lost or
\* overwritten: the notifications the scheduler has consumed are, one for
\* one and in order of arrival, the first of those handed over, each shown
\* as a banner, at most one per loop iteration, and none stays pending for
\* ever: unless the process exits, time and again all that were handed over
\* have been consumed
C20_EveryNotificationShown ==
    /\ [](IsPrefix(shown, accepted))
    /\ [](Len(SelectSeq(iterSent, IsBannerKind)) <= 1)
    /\ [][C20_TakesOldest]_vars
    /\ []<>(Exited \/ shown = accepted)

\* two notifications were handed over while the scheduler was busy and both
\* have been shown, the second in a later iteration
C20_Witness ==
    /\ Len(accepted) = 2
    /\ shown = accepted
    /\ schedPc = "banner_sleep"
    /\ banner = BannerText(accepted[2])
    /\ Last(handed) = banner
    /\ ~Exited

============================================================================
